---- MODULE Spec2Model ----
(***************************************************************************)
(* NutriPal: the Diet Tracker's JSON log files (save_log_json), the mailed *)
(* and displayed summaries (send_summary_email, generate_summary) and the  *)
(* chat transcript of src/app.py, as state machines.                       *)
(*                                                                         *)
(* Strings that the code slices or that the operating system interprets    *)
(* are modelled by their parts:                                            *)
(*   - an e-mail text is the sequence of its "/"-separated segments, so    *)
(*     that "ada" is <<"ada">> and "./ada" is <<".", "ada">>;              *)
(*   - a clock reading is <<year-month, day, minute of day, second>>, the  *)
(*     "%Y-%m-%d %H:%M" text is its first three parts, "%Y-%m-%d" its      *)
(*     first two and timestamp[:7] its first.                              *)
(***************************************************************************)
EXTENDS Integers, Sequences, FiniteSets, TLC

\* ------------------------------------------------------------------ bounds
\* Log Entry clicks in one session.
MaxLog == 2
\* Chat submissions in one session.
MaxChat == 3
\* Chunks the inference stream yields for one reply.
MaxChunks == 2
\* Entries handed to the summary folds.
MaxEntries == 3

VARIABLES
    clock,      \* the local wall clock datetime.now() reads
    files,      \* the logs/ directory: resolved path -> content
    diet_log,   \* st.session_state.diet_log
    last,       \* what the most recent handler did (its inputs and outcome)
    messages,   \* st.session_state.messages
    sum_in,     \* the entries handed to a summary fold
    sum_out,    \* the fold's result
    wpc,        \* per session: where its save_log_json call stands
    wlog_data,  \* per session: save_log_json's local log_data
    rd          \* a send_summary_email call reading the same file

chatVars == <<messages>>
sumVars == <<sum_in, sum_out>>
concVars == <<wpc, wlog_data, rd>>
vars == <<clock, files, diet_log, last, messages, sum_in, sum_out, wpc, wlog_data, rd>>

\* ------------------------------------------------------------- input sets
\* The text typed into "Enter your email", split at "/".
Emails == { <<"ada">>, <<".", "ada">>, <<"bob">> }
MealTypes == { "Lunch" }
Descriptions == { "Jollof rice" }
WaterValues == { 3 }
\* Wall-clock readings: two in the same minute and one of the next day,
\* which is in the next month.
ClockValues ==
    { <<202405, 31, 480, 0>>, <<202405, 31, 480, 30>>, <<202406, 1, 480, 0>> }
FirstClock == <<202405, 31, 480, 0>>
\* Browser sessions that run the script at the same time.
Sessions == { 1, 2 }
\* What the environment does to a storage or mail call.
SaveEnv == { "ok", "read_error", "open_error", "dump_error" }
SendEnv == { "ok", "read_error", "smtp_error" }

\* Lexicographic order of clock readings and of timestamps (the order of
\* the formatted strings).
RECURSIVE LexLess(_, _)
LexLess(a, b) ==
    IF a = <<>> \/ b = <<>> THEN a = <<>> /\ b # <<>>
    ELSE IF a[1] # b[1] THEN a[1] < b[1]
    ELSE LexLess(Tail(a), Tail(b))
LexLeq(a, b) == a = b \/ LexLess(a, b)

\* now.strftime("%Y-%m-%d %H:%M"): the seconds are dropped.
strftime_minute(now) == <<now[1], now[2], now[3]>>
\* now.strftime("%Y-%m-%d")
strftime_date(now) == <<now[1], now[2]>>
\* entry["timestamp"][:7]
Prefix7(timestamp) == <<timestamp[1]>>

\* ------------------------------------------------------------ file system
\* f"logs/{user_email}_diet_log.json", as path segments.
file_path(user_email) == <<"logs">> \o user_email
\* The file a path names: "." segments name the directory they are in.
Resolve(path) == SelectSeq(path, LAMBDA s : s # ".")
\* os.makedirs("logs") creates logs/ and nothing below it.
DirExists(path) == Len(Resolve(path)) = 2
Paths == { Resolve(file_path(e)) : e \in { x \in Emails : DirExists(file_path(x)) } }

NoFile == [kind |-> "none", data |-> <<>>]
\* Text that json.load rejects or that is no list: an empty or partly
\* written file, or another layout.
Malformed == [kind |-> "bad", data |-> <<>>]
JsonList(entries) == [kind |-> "list", data |-> entries]

\* The file of an owner as open(file_path, "r") finds it.
FileOf(fs, user_email) ==
    IF DirExists(file_path(user_email)) THEN fs[Resolve(file_path(user_email))]
    ELSE NoFile

\* ---------------------------------------------------------- save_log_json
Raise(fs) == [files |-> fs, raised |-> TRUE]

\* A save that does not load the existing log first.
save_log_json_noload(fs, user_email, entry, env) ==
    LET path == file_path(user_email)
    IN  IF ~DirExists(path) \/ env \in {"read_error", "open_error"} THEN Raise(fs)
        ELSE [files |-> [fs EXCEPT ![Resolve(path)] = JsonList(<<entry>>)],
              raised |-> FALSE]

save_log_json(fs, user_email, entry, env) ==
    LET path == file_path(user_email)
        cur == FileOf(fs, user_email)
    IN  IF ~DirExists(path) THEN Raise(fs)
        ELSE IF cur.kind # "none" /\ (env = "read_error" \/ cur.kind = "bad")
        THEN Raise(fs)
        ELSE LET log_data == Append(cur.data, entry)
             IN  CASE env = "open_error" -> Raise(fs)
                   [] env = "dump_error" ->
                        Raise([fs EXCEPT ![Resolve(path)] = Malformed])
                   [] OTHER ->
                        [files |-> [fs EXCEPT ![Resolve(path)] = JsonList(log_data)],
                         raised |-> FALSE]

\* -------------------------------------------------------------- summaries
\* f"{entry['meal_type']}: {entry['description']}"
MealLine(entry) == <<entry.meal_type, ": ", entry.description>>

\* entry["date"] if mode == "daily" else entry["timestamp"][:7]
BucketKey(entry, mode) ==
    IF mode = "daily" THEN entry.date ELSE Prefix7(entry.timestamp)

\* A defaultdict in insertion order: the sequence of its items.
KeyIndex(summary, key) ==
    LET hits == { i \in 1..Len(summary) : summary[i].key = key }
    IN  IF hits = {} THEN 0 ELSE CHOOSE i \in hits : TRUE

\* A fold that assigns the water instead of adding it.
AddToBucket_assign(summary, key, line, water) ==
    LET i == KeyIndex(summary, key)
    IN  IF i = 0
        THEN Append(summary, [key |-> key, meals |-> <<line>>, water |-> water])
        ELSE [summary EXCEPT ![i] = [key |-> key, meals |-> Append(@.meals, line),
                                     water |-> water]]

\* summary[key]["meals"].append(line); summary[key]["water"] += water
AddToBucket(summary, key, line, water) ==
    LET i == KeyIndex(summary, key)
    IN  IF i = 0
        THEN Append(summary, [key |-> key, meals |-> <<line>>, water |-> 0 + water])
        ELSE [summary EXCEPT ![i] = [key |-> key, meals |-> Append(@.meals, line),
                                     water |-> @.water + water]]

RECURSIVE FoldEntries(_, _, _)
FoldEntries(entries, mode, summary) ==
    IF entries = <<>> THEN summary
    ELSE FoldEntries(Tail(entries), mode,
                     AddToBucket(summary, BucketKey(Head(entries), mode),
                                 MealLine(Head(entries)), Head(entries).water))

\* A summary whose buckets are put in label order (sorted(summary.items())).
RECURSIVE InsertByKey(_, _)
InsertByKey(sorted, bucket) ==
    IF sorted = <<>> THEN <<bucket>>
    ELSE IF LexLess(bucket.key, Head(sorted).key) THEN <<bucket>> \o sorted
    ELSE <<Head(sorted)>> \o InsertByKey(Tail(sorted), bucket)
RECURSIVE SortByKey(_)
SortByKey(summary) ==
    IF summary = <<>> THEN <<>>
    ELSE InsertByKey(SortByKey(Tail(summary)), Head(summary))
generate_summary_sorted(log_data, mode) == SortByKey(FoldEntries(log_data, mode, <<>>))

generate_summary(log_data, mode) == FoldEntries(log_data, mode, <<>>)

\* The same loop inside send_summary_email.
email_summary(logs, summary_type) == FoldEntries(logs, summary_type, <<>>)

\* The text of one bucket: its date line, "Meals:", one "- " line per meal
\* and the water line.
RenderBucket(b) ==
    <<[tag |-> "date", v |-> b.key], [tag |-> "Meals:", v |-> Len(b.meals)]>>
    \o [i \in 1..Len(b.meals) |-> [tag |-> "- ", v |-> b.meals[i]]]
    \o <<[tag |-> "Water", v |-> b.water]>>

RECURSIVE RenderBuckets(_)
RenderBuckets(summary) ==
    IF summary = <<>> THEN <<>>
    ELSE RenderBucket(Head(summary)) \o RenderBuckets(Tail(summary))

summary_text(user_email, summary_type, summary) ==
    <<[tag |-> "title", v |-> <<summary_type, user_email>>]>> \o RenderBuckets(summary)

\* ----------------------------------------------------- send_summary_email
NoLogMessage == "No diet log found for this user."
SentMessage == "Summary sent to your email!"
FailedMessage == "Failed to send summary"

Outcome(kind, ret, transport, mail, fs) ==
    [kind |-> kind, ret |-> ret, transport |-> transport, mail |-> mail, files |-> fs]

\* The body of the try block: it returns, or an exception leaves it.
send_summary_try(fs, user_email, summary_type, env) ==
    LET cur == FileOf(fs, user_email)
    IN  IF cur.kind = "none" THEN Outcome("return", NoLogMessage, 0, <<>>, fs)
        ELSE IF env = "read_error" \/ cur.kind = "bad"
        THEN Outcome("raise", "json.load", 0, <<>>, fs)
        ELSE LET msg == [subject |-> <<"NutriPal", summary_type, "Summary">>,
                         from |-> user_email, to |-> user_email,
                         summary_type |-> summary_type,
                         body |-> summary_text(user_email, summary_type,
                                               email_summary(cur.data, summary_type))]
             IN  IF env = "smtp_error"
                 THEN Outcome("raise", "smtp", 1, <<>>, fs)
                 ELSE Outcome("return", SentMessage, 1, <<msg>>, fs)

\* send_summary_email without its except clause.
send_summary_email_uncaught(fs, user_email, summary_type, env) ==
    send_summary_try(fs, user_email, summary_type, env)

send_summary_email(fs, user_email, summary_type, env) ==
    LET r == send_summary_try(fs, user_email, summary_type, env)
    IN  IF r.kind = "raise"
        THEN Outcome("return", FailedMessage, r.transport, r.mail, r.files)
        ELSE r

\* ----------------------------------------------------------- Diet Tracker
OldAda ==
    [timestamp |-> strftime_minute(FirstClock), meal_type |-> "Lunch",
     description |-> "Jollof rice", water |-> 4,
     date |-> strftime_date(FirstClock), email |-> <<"ada">>]

\* A fresh session over the log files earlier sessions left.
InitDiary ==
    /\ clock = FirstClock
    /\ files \in [Paths -> {NoFile, Malformed, JsonList(<<OldAda>>)}]
    /\ files[Resolve(file_path(<<"ada">>))].kind # "bad"
    /\ files[Resolve(file_path(<<"bob">>))].kind # "list"
    /\ diet_log = <<>>
    /\ last = [op |-> "start"]
    /\ messages = <<>>
    /\ sum_in = <<>>
    /\ sum_out = [fn |-> "none"]
    /\ wpc = [s \in Sessions |-> "idle"]
    /\ wlog_data = [s \in Sessions |-> <<>>]
    /\ rd = [pc |-> "idle"]

\* if st.button("Log Entry"): the entry joins the session log, then is saved.
LogEntry(email, meal_type, meal_description, water_intake, env) ==
    /\ Len(diet_log) < MaxLog
    /\ LET now == clock
           entry == [timestamp |-> strftime_minute(now), meal_type |-> meal_type,
                     description |-> meal_description, water |-> water_intake,
                     date |-> strftime_date(now), email |-> email]
       IN  /\ diet_log' = Append(diet_log, entry)
           /\ \E saved \in {save_log_json(files, email, entry, env)} :
                 /\ files' = saved.files
                 /\ last' = [op |-> "log", raised |-> saved.raised]
    /\ UNCHANGED <<clock, chatVars, sumVars, concVars>>

\* The two e-mail buttons, shown while the session log is not empty.
SendSummary(email, summary_type, env) ==
    /\ diet_log # <<>>
    /\ \E r \in {send_summary_email(files, email, summary_type, env)} :
           /\ files' = r.files
           /\ last' = [op |-> "send", raised |-> r.kind = "raise", ret |-> r.ret,
                       transport |-> r.transport, mail |-> r.mail]
    /\ UNCHANGED <<clock, diet_log, chatVars, sumVars, concVars>>

\* Time passes.
Tick ==
    /\ \E t \in ClockValues : LexLess(clock, t) /\ clock' = t
    /\ UNCHANGED <<files, diet_log, last, chatVars, sumVars, concVars>>

\* The local wall clock is set back (the end of daylight saving time, a
\* clock correction): datetime.now() is naive local time.
ClockSetBack ==
    /\ \E t \in ClockValues : LexLess(t, clock) /\ clock' = t
    /\ UNCHANGED <<files, diet_log, last, chatVars, sumVars, concVars>>

NextDiary ==
    \/ \E email \in Emails, meal_type \in MealTypes, d \in Descriptions,
          w \in WaterValues, env \in SaveEnv :
            LogEntry(email, meal_type, d, w, env)
    \/ \E email \in Emails, summary_type \in {"daily", "weekly"}, env \in SendEnv :
            SendSummary(email, summary_type, env)
    \/ Tick
    \/ ClockSetBack

SpecDiary == InitDiary /\ [][NextDiary]_vars

\* ------------------------------------------------- Diet Tracker: the claims
Range(seq) == { seq[i] : i \in 1..Len(seq) }

NonDecreasing(entries) ==
    \A i \in 1..(Len(entries) - 1) :
        LexLeq(entries[i].timestamp, entries[i + 1].timestamp)

\* A step of the Log Entry handler, and one whose save returned normally.
LogStep == Len(diet_log') = Len(diet_log) + 1
LogSaved == LogStep /\ ~last'.raised
\* A step of an e-mail button.
SendStep == last'.op = "send" /\ last' # last

\* C1 as stated: every Log Entry whose save returns leaves the owner's file
\* equal to what it held before followed by the new entry, and the file's
\* timestamps never decrease from one entry to the next.
C1_AppendOrderTimestamps ==
    [][LogSaved =>
        LET e == diet_log'[Len(diet_log')]
        IN  /\ FileOf(files', e.email)
                 = JsonList(Append(FileOf(files, e.email).data, e))
            /\ NonDecreasing(FileOf(files', e.email).data)]_vars

\* C1 as amended: every Log Entry whose save returns leaves the owner's file
\* equal to what it held before followed by the new entry, whose timestamp
\* is the wall-clock reading of the call cut to the minute and whose date is
\* that reading's day.
C1_AppendInCallOrder ==
    [][LogSaved =>
        LET e == diet_log'[Len(diet_log')]
        IN  /\ FileOf(files', e.email)
                 = JsonList(Append(FileOf(files, e.email).data, e))
            /\ e.timestamp = strftime_minute(clock)
            /\ e.date = strftime_date(clock)]_vars

\* Two entries were appended, at different minutes, behind the entry the
\* file already held.
C1_Witness ==
    /\ last.op = "log" /\ ~last.raised
    /\ Len(diet_log) = 2
    /\ diet_log[1].timestamp # diet_log[2].timestamp
    /\ FileOf(files, <<"ada">>) = JsonList(<<OldAda>> \o diet_log)

\* C2: a Log Entry for one owner leaves the persisted log of every other
\* owner identifier as it was.
C2_OtherOwnersUnchanged ==
    [][LogStep =>
        LET e == diet_log'[Len(diet_log')]
        IN  \A B \in Emails :
                B # e.email => FileOf(files', B) = FileOf(files, B)]_vars

HasEntryDated(file, date) ==
    file.kind = "list" /\ \E i \in 1..Len(file.data) : file.data[i].date = date

\* C5: mail is dispatched for an owner only if that owner's file has an
\* entry dated today.
C5_NoMailWithoutEntryToday ==
    [][(SendStep /\ last'.mail # <<>>) =>
        HasEntryDated(FileOf(files, last'.mail[1].to), strftime_date(clock))]_vars

LowWaterAdvisory ==
    "Your water intake today was low. Consider drinking coconut water, zobo, or eating watermelon."
LinesTagged(body, tag) == { i \in 1..Len(body) : body[i].tag = tag }

\* C6: a mailed daily summary of a single day carries the low-water advisory
\* exactly when that day's water total is below 4 cups.
C6_LowWaterAdvisory ==
    (/\ last.op = "send" /\ last.mail # <<>>
     /\ last.mail[1].summary_type = "daily"
     /\ Cardinality(LinesTagged(last.mail[1].body, "date")) = 1)
    => LET body == last.mail[1].body
           total == body[CHOOSE i \in LinesTagged(body, "Water") : TRUE].v
       IN  (LinesTagged(body, LowWaterAdvisory) # {}) <=> (total < 4)

\* C8: a click on an e-mail button never ends in an exception: it yields one
\* of the three messages, reaches the mail transport at most once, and
\* leaves every log file as it was.
C8_SendNeverRaises ==
    [][SendStep =>
        /\ ~last'.raised
        /\ last'.ret \in {NoLogMessage, SentMessage, FailedMessage}
        /\ last'.transport <= 1
        /\ files' = files]_vars

\* The transport failed once and the failure came back as the message; a
\* missing and a malformed log do the same elsewhere.
C8_Witness ==
    /\ last.op = "send"
    /\ last.ret = FailedMessage
    /\ last.transport = 1
    /\ last.mail = <<>>

\* C10: every entry of the session log is in its owner's persisted file.
C10_SessionLogPersisted ==
    \A i \in 1..Len(diet_log) :
        LET file == FileOf(files, diet_log[i].email)
        IN  file.kind = "list" /\ diet_log[i] \in Range(file.data)

\* -------------------------------------------------------------------- Chat
\* A text is the sequence of the pieces it was put together from.
Prompts == { <<"Is garri healthy?">>, <<"What is zobo?">> }
\* A chunk of the reply stream; chunk.text may be None.
Chunks == { [text |-> <<"Eat yam. ">>, none |-> FALSE], [text |-> <<>>, none |-> TRUE] }
\* What generate_content_stream yields, and whether it then raises.
Streams ==
    [chunks : UNION { [1..k -> Chunks] : k \in 0..MaxChunks }, fails : BOOLEAN]

\* response += chunk.text, chunk after chunk; str + None raises TypeError.
RECURSIVE Accumulate(_, _)
Accumulate(response, chunks) ==
    IF chunks = <<>> THEN [raised |-> FALSE, response |-> response]
    ELSE IF Head(chunks).none THEN [raised |-> TRUE, response |-> response]
    ELSE Accumulate(response \o Head(chunks).text, Tail(chunks))

ErrorText(e) == <<"Error: ", e>>

\* The try/except around the stream: the reply, or the error text.
chat_response(stream) ==
    LET acc == Accumulate(<<>>, stream.chunks)
    IN  IF acc.raised THEN [failed |-> TRUE, response |-> ErrorText("TypeError")]
        ELSE IF stream.fails THEN [failed |-> TRUE, response |-> ErrorText("APIError")]
        ELSE [failed |-> FALSE, response |-> acc.response]

\* A submission whose exception is not caught: the script run ends there.
chat_turns_uncaught(prompt, stream) ==
    IF chat_response(stream).failed
    THEN <<[role |-> "user", content |-> prompt]>>
    ELSE <<[role |-> "user", content |-> prompt],
           [role |-> "assistant", content |-> chat_response(stream).response]>>

\* The turns one submission appends to st.session_state.messages.
chat_turns(prompt, stream) ==
    <<[role |-> "user", content |-> prompt],
      [role |-> "assistant", content |-> chat_response(stream).response]>>

InitChat ==
    /\ clock = FirstClock
    /\ files = [p \in Paths |-> NoFile]
    /\ diet_log = <<>>
    /\ last = [op |-> "start"]
    /\ messages = <<>>
    /\ sum_in = <<>>
    /\ sum_out = [fn |-> "none"]
    /\ wpc = [s \in Sessions |-> "idle"]
    /\ wlog_data = [s \in Sessions |-> <<>>]
    /\ rd = [pc |-> "idle"]

\* if prompt := st.chat_input(...)
ChatSubmit(prompt, stream) ==
    /\ Len(messages) < 2 * MaxChat
    /\ messages' = messages \o chat_turns(prompt, stream)
    /\ last' = [op |-> "chat", prompt |-> prompt,
                failed |-> chat_response(stream).failed]
    /\ UNCHANGED <<clock, files, diet_log, sumVars, concVars>>

NextChat == \E prompt \in Prompts, stream \in Streams : ChatSubmit(prompt, stream)

SpecChat == InitChat /\ [][NextChat]_vars

IsErrorText(content) == content # <<>> /\ content[1] = "Error: "

Alternates(turns) ==
    \A i \in 1..Len(turns) :
        turns[i].role = (IF i % 2 = 1 THEN "user" ELSE "assistant")

\* C7: every chat submission, failed or not, appends exactly two turns, the
\* user's prompt and then one assistant turn that is the error text exactly
\* when the inference call failed, and leaves the earlier turns as they
\* were; the transcript alternates user, assistant.
C7_TwoTurnsPerSubmission ==
    [][last'.op = "chat" =>
        /\ Alternates(messages')
        /\ (messages' # messages =>
              LET n == Len(messages)
              IN  /\ Len(messages') = n + 2
                  /\ SubSeq(messages', 1, n) = messages
                  /\ messages'[n + 1] = [role |-> "user", content |-> last'.prompt]
                  /\ messages'[n + 2].role = "assistant"
                  /\ IsErrorText(messages'[n + 2].content) <=> last'.failed)]_vars

\* A failed submission followed by a successful one.
C7_Witness ==
    /\ Len(messages) = 4
    /\ IsErrorText(messages[2].content)
    /\ ~IsErrorText(messages[4].content) /\ messages[4].content # <<>>
    /\ last.op = "chat" /\ ~last.failed

\* ---------------------------------------------------------- summary folds
SumEntries ==
    [timestamp : { <<202405, 31, 480>>, <<202406, 1, 480>> },
     meal_type : { "Lunch", "Dinner" },
     description : { "Jollof rice" },
     water : { 1, 3 },
     date : { <<202405, 31>>, <<202406, 1>> },
     email : { <<"ada">> }]

InitSummary ==
    /\ clock = FirstClock
    /\ files = [p \in Paths |-> NoFile]
    /\ diet_log = <<>>
    /\ last = [op |-> "start"]
    /\ messages = <<>>
    /\ sum_in \in UNION { [1..k -> SumEntries] : k \in 0..MaxEntries }
    /\ sum_out = [fn |-> "none"]
    /\ wpc = [s \in Sessions |-> "idle"]
    /\ wlog_data = [s \in Sessions |-> <<>>]
    /\ rd = [pc |-> "idle"]

\* with st.expander("View Summary"): the daily and the "weekly" summary.
ViewSummary(mode) ==
    /\ sum_out' = [fn |-> "generate_summary", mode |-> mode,
                   summary |-> generate_summary(sum_in, mode)]
    /\ UNCHANGED <<clock, files, diet_log, last, messages, sum_in, concVars>>

\* The fold inside send_summary_email.
MailSummary(summary_type) ==
    /\ sum_out' = [fn |-> "send_summary_email", mode |-> summary_type,
                   summary |-> email_summary(sum_in, summary_type)]
    /\ UNCHANGED <<clock, files, diet_log, last, messages, sum_in, concVars>>

NextSummary ==
    \/ \E mode \in {"daily", "weekly"} : ViewSummary(mode)
    \/ \E summary_type \in {"daily", "weekly"} : MailSummary(summary_type)

SpecSummary == InitSummary /\ [][NextSummary]_vars

RECURSIVE SumWater(_)
SumWater(entries) ==
    IF entries = <<>> THEN 0 ELSE Head(entries).water + SumWater(Tail(entries))

\* C3: for entries that all share one date, the daily summary is the single
\* bucket of that date, with the sum of the entries' water and one meal line
\* per entry in entry order.
C3_SameDateOneBucket ==
    (/\ sum_out.fn # "none"
     /\ sum_out.mode = "daily"
     /\ sum_in # <<>>
     /\ \A i \in 1..Len(sum_in) : sum_in[i].date = sum_in[1].date)
    => sum_out.summary
         = <<[key |-> sum_in[1].date,
              meals |-> [i \in 1..Len(sum_in) |-> MealLine(sum_in[i])],
              water |-> SumWater(sum_in)]>>

\* Three entries of one date, with different meal lines and water values.
C3_Witness ==
    /\ sum_out.fn = "send_summary_email"
    /\ sum_out.mode = "daily"
    /\ Len(sum_in) = 3
    /\ \A i \in 1..3 : sum_in[i].date = sum_in[1].date
    /\ sum_in[1].water # sum_in[2].water
    /\ sum_in[1].meal_type # sum_in[3].meal_type
    /\ sum_in[1].timestamp # sum_in[2].timestamp
    /\ Len(sum_out.summary) = 1

\* The label of an entry: its date for the daily summary, the year and
\* month of its timestamp otherwise.
Label(entry, mode) ==
    IF mode = "daily" THEN entry.date ELSE <<entry.timestamp[1]>>
\* The positions of the entries that carry a label.
Positions(entries, mode, label) ==
    { i \in 1..Len(entries) : Label(entries[i], mode) = label }
\* The entries at a set of positions, in entry order.
RECURSIVE Pick(_, _, _)
Pick(entries, positions, i) ==
    IF i > Len(entries) THEN <<>>
    ELSE (IF i \in positions THEN <<entries[i]>> ELSE <<>>)
         \o Pick(entries, positions, i + 1)
First(positions) == CHOOSE i \in positions : \A j \in positions : i <= j

\* C4: the buckets are the labels of the entries, in the order of each
\* label's first entry; a bucket holds the meal lines of exactly the entries
\* with its label, in entry order, and the sum of their water, so that the
\* bucket totals add up to the water of the input.
C4_FirstSeenOrder ==
    sum_out.fn # "none" =>
        LET s == sum_out.summary
            mode == sum_out.mode
            pos(b) == Positions(sum_in, mode, s[b].key)
        IN  /\ \A i \in 1..Len(sum_in) :
                 Cardinality({ b \in 1..Len(s) : s[b].key = Label(sum_in[i], mode) }) = 1
            /\ \A b \in 1..Len(s) :
                 /\ pos(b) # {}
                 /\ s[b].meals
                      = [k \in 1..Cardinality(pos(b)) |->
                            MealLine(Pick(sum_in, pos(b), 1)[k])]
                 /\ s[b].water = SumWater(Pick(sum_in, pos(b), 1))
            /\ \A b, c \in 1..Len(s) : b < c => First(pos(b)) < First(pos(c))
            /\ SumWater([b \in 1..Len(s) |-> [water |-> s[b].water]]) = SumWater(sum_in)

\* A later month comes first, an earlier month second, and the first month
\* again: the buckets are not in label order.
C4_Witness ==
    /\ sum_out.fn = "generate_summary"
    /\ sum_out.mode = "weekly"
    /\ Len(sum_in) = 3
    /\ Len(sum_out.summary) = 2
    /\ LexLess(sum_out.summary[2].key, sum_out.summary[1].key)
    /\ Len(sum_out.summary[1].meals) = 2

\* ------------------------------------- save_log_json in concurrent sessions
\* Streamlit runs each session's script in a thread of its own; the steps of
\* save_log_json and send_summary_email on one owner's file interleave.
SharedOwner == <<"ada">>
SharedPath == Resolve(file_path(SharedOwner))

\* The entry session s logs.
SessionEntry(s) ==
    [timestamp |-> strftime_minute(FirstClock),
     meal_type |-> IF s = 1 THEN "Breakfast" ELSE "Dinner",
     description |-> "Jollof rice", water |-> s,
     date |-> strftime_date(FirstClock), email |-> SharedOwner]

InitConc ==
    /\ clock = FirstClock
    /\ files \in [Paths -> {NoFile, JsonList(<<OldAda>>)}]
    /\ files[Resolve(file_path(<<"bob">>))] = NoFile
    /\ diet_log = <<>>
    /\ last = [op |-> "start"]
    /\ messages = <<>>
    /\ sum_in = <<>>
    /\ sum_out = [fn |-> "none"]
    /\ wpc = [s \in Sessions |-> "idle"]
    /\ wlog_data = [s \in Sessions |-> <<>>]
    /\ rd = [pc |-> "idle"]

Busy(s) == wpc[s] \in {"exists", "appended", "opened"}

\* A save that first waits for a lock no other session holds.
W_Exists_locked(s) ==
    /\ wpc[s] = "idle"
    /\ \A t \in Sessions \ {s} : ~Busy(t)
    /\ IF files[SharedPath].kind = "none"
       THEN /\ wpc' = [wpc EXCEPT ![s] = "appended"]
            /\ wlog_data' = [wlog_data EXCEPT ![s] = <<SessionEntry(s)>>]
       ELSE /\ wpc' = [wpc EXCEPT ![s] = "exists"]
            /\ UNCHANGED wlog_data
    /\ UNCHANGED <<clock, files, diet_log, last, chatVars, sumVars, rd>>

\* log_data = []; if os.path.exists(file_path): ... (else log_data.append)
W_Exists(s) ==
    /\ wpc[s] = "idle"
    /\ IF files[SharedPath].kind = "none"
       THEN /\ wpc' = [wpc EXCEPT ![s] = "appended"]
            /\ wlog_data' = [wlog_data EXCEPT ![s] = <<SessionEntry(s)>>]
       ELSE /\ wpc' = [wpc EXCEPT ![s] = "exists"]
            /\ UNCHANGED wlog_data
    /\ UNCHANGED <<clock, files, diet_log, last, chatVars, sumVars, rd>>

\* log_data = json.load(f); log_data.append(entry)
W_Load(s) ==
    /\ wpc[s] = "exists"
    /\ IF files[SharedPath].kind = "list"
       THEN /\ wpc' = [wpc EXCEPT ![s] = "appended"]
            /\ wlog_data' = [wlog_data EXCEPT
                                ![s] = Append(files[SharedPath].data, SessionEntry(s))]
       ELSE /\ wpc' = [wpc EXCEPT ![s] = "raised"]
            /\ UNCHANGED wlog_data
    /\ UNCHANGED <<clock, files, diet_log, last, chatVars, sumVars, rd>>

\* open(file_path, "w") truncates the file.
W_Open(s) ==
    /\ wpc[s] = "appended"
    /\ files' = [files EXCEPT ![SharedPath] = Malformed]
    /\ wpc' = [wpc EXCEPT ![s] = "opened"]
    /\ UNCHANGED <<clock, diet_log, last, chatVars, sumVars, wlog_data, rd>>

\* json.dump(log_data, f) and the close that flushes it, from offset 0 of
\* this session's own file object. Over text another session wrote since
\* the truncation, the result is this session's text, or that text followed
\* by what is left of a longer one.
W_Dump(s) ==
    /\ wpc[s] = "opened"
    /\ \E written \in {JsonList(wlog_data[s]), Malformed} :
         /\ written = Malformed => files[SharedPath].kind = "list"
         /\ files' = [files EXCEPT ![SharedPath] = written]
    /\ wpc' = [wpc EXCEPT ![s] = "done"]
    /\ UNCHANGED <<clock, diet_log, last, chatVars, sumVars, wlog_data, rd>>

\* send_summary_email: if not os.path.exists(log_path): return ...
R_Exists ==
    /\ rd.pc = "idle"
    /\ rd' = IF files[SharedPath].kind = "none"
             THEN [pc |-> "done", seen |-> "none", ret |-> NoLogMessage]
             ELSE [pc |-> "exists"]
    /\ UNCHANGED <<clock, files, diet_log, last, chatVars, sumVars, wpc, wlog_data>>

\* logs = json.load(f), and the rest of the call with a working transport.
R_Load ==
    /\ rd.pc = "exists"
    /\ rd' = [pc |-> "done", seen |-> files[SharedPath].kind,
              ret |-> IF files[SharedPath].kind = "list"
                      THEN SentMessage ELSE FailedMessage]
    /\ UNCHANGED <<clock, files, diet_log, last, chatVars, sumVars, wpc, wlog_data>>

NextConc ==
    \/ \E s \in Sessions : W_Exists(s)
    \/ \E s \in Sessions : W_Load(s)
    \/ \E s \in Sessions : W_Open(s)
    \/ \E s \in Sessions : W_Dump(s)
    \/ R_Exists
    \/ R_Load

SpecConc == InitConc /\ [][NextConc]_vars

AllSaved == \A s \in Sessions : wpc[s] = "done"
SameSnapshot == \A s, t \in Sessions : Len(wlog_data[s]) = Len(wlog_data[t])

\* C9: no step of save_log_json or of the read in send_summary_email waits
\* for another session (there is no lock); once all saves have returned the
\* file holds what the last writer held, so when the sessions loaded the
\* same contents the file lacks the entry of one of them.
C9_NoLockLostUpdate ==
    /\ \A s \in Sessions : wpc[s] = "idle" => ENABLED W_Exists(s)
    /\ \A s \in Sessions : wpc[s] = "appended" => ENABLED W_Open(s)
    /\ rd.pc = "idle" => ENABLED R_Exists
    /\ rd.pc = "exists" => ENABLED R_Load
    /\ (AllSaved /\ files[SharedPath].kind = "list") =>
          /\ \E s \in Sessions : files[SharedPath].data = wlog_data[s]
          /\ SameSnapshot =>
                \E s \in Sessions : SessionEntry(s) \notin Range(files[SharedPath].data)

\* Both saves returned normally, the file is well formed and holds the entry
\* of only one of them, and the concurrent read met the truncated file.
C9_Witness ==
    /\ AllSaved
    /\ files[SharedPath].kind = "list"
    /\ \E s \in Sessions : SessionEntry(s) \notin Range(files[SharedPath].data)
    /\ \E s \in Sessions : SessionEntry(s) \in Range(files[SharedPath].data)
    /\ rd.pc = "done" /\ rd.seen = "bad" /\ rd.ret = FailedMessage
====
